---- MODULE Spec2Model ----
(***************************************************************************)
(* A model of mdqp.py: one invocation diffs incoming_metadata against      *)
(* seen_metadata, queues every new or modified entity, removes what has    *)
(* disappeared upstream and then drains the two persistent queues up to a  *)
(* per-run budget, fetching the signed metadata of each dequeued entity.   *)
(*                                                                         *)
(* The program is single-process and run-to-completion (cron); the         *)
(* upstream writer of incoming_metadata acts between invocations.          *)
(***************************************************************************)
EXTENDS Integers, Sequences, FiniteSets, TLC

\* ------------------------------------------------------------------ bounds

\* invocations of main() in one behaviour
MaxRuns == 2
\* interventions from outside (upstream edits, the operator) in one behaviour
MaxEdits == 1
\* largest MIN_ENTITIES_PER_RUN the environment sets
MaxMinPerRun == 2
\* largest RPH the environment sets
MaxRPH == 2
\* largest pending depth handed to the budget computation on its own
MaxPending == 100

\* ------------------------------------------------------------ value domains

Files == {"a.xml", "b.xml", "c.xml"}

EntityIds == {"https://idp.example/1", "https://idp.example/2"}

\* what root.attrib["entityID"] raises KeyError for
NoAttr == "<no entityID attribute>"

\* Python's None
None == "<None>"

\* An XML document, by what the program can observe of it: whether ET.parse
\* accepts it, the entityID attribute of its root, and the rest of its bytes.
Doc(wf, id, rev) == [wellformed |-> wf, entityID |-> id, rev |-> rev]

ValidDocs == {Doc(TRUE, "https://idp.example/1", 1),
              Doc(TRUE, "https://idp.example/1", 2),
              Doc(TRUE, "https://idp.example/2", 1)}

Malformed == Doc(FALSE, NoAttr, 1)

InvalidDocs == {Malformed, Doc(TRUE, NoAttr, 1), Doc(TRUE, "", 1)}

Contents == ValidDocs \cup InvalidDocs

\* a path that does not exist
Absent == Doc(FALSE, "<absent>", 0)

\* what xml_to_tree returns on ParseError
NoTree == Doc(FALSE, None, 0)

\* a feed that also delivers files without a usable entityID
BrokenFeedDocs ==
    InvalidDocs \cup {Doc(TRUE, "https://idp.example/1", 1),
                      Doc(TRUE, "https://idp.example/2", 1)}

\* the names the upstream feed keeps rewriting
FeedNames == {"a.xml", "b.xml"}

\* what the upstream feed puts into incoming_metadata
FeedDocs == ValidDocs \cup {Malformed}

Hours == 0..23

\* ----------------------------------------------------------- pure functions

\* hashlib.sha1 over a file's bytes: equal digests exactly for equal bytes
sha1sum(doc) == <<"sha1", doc>>

\* hashlib.sha1 over the UTF-8 bytes of the identifier
shasum_entityid(entityid) == <<"sha1", entityid>>

\* ET.parse: the tree, or None on ParseError
xml_to_tree(doc) == IF doc.wellformed THEN doc ELSE NoTree

\* root.attrib["entityID"], None on KeyError
get_entityid(tree) == IF tree.entityID = NoAttr THEN None ELSE tree.entityID

get_entityid_from_file(doc) ==
    IF xml_to_tree(doc) # NoTree THEN get_entityid(xml_to_tree(doc)) ELSE None

TruthyNotNone(entityid) == entityid # None

\* Python truthiness of an entityid: None and "" are falsy
Truthy(entityid) == entityid # None /\ entityid # ""

Digests == {shasum_entityid(e) : e \in EntityIds \cup {""}}

\* os.listdir
listdir(dir) == {f \in DOMAIN dir : dir[f] # Absent}

\* ---------------------------------------------------- SQLiteQueue(auto_commit=False)

\* rows: the table on disk; cursor: rows handed out by get() and not yet
\* deleted by task_done(), counted from the head (in memory only).
EmptyQueue == [rows |-> <<>>, cursor |-> 0]

\* a new process opens the table: the cursor restarts before the head row
QueueOpen(q) == [rows |-> q.rows, cursor |-> 0]

QueuePut(q, m) == [q EXCEPT !.rows = Append(@, m)]

QueueSize(q) == Len(q.rows) - q.cursor

QueueFront(q) == q.rows[q.cursor + 1]

QueueGetAutoCommit(q) == [rows |-> Tail(q.rows), cursor |-> 0]

QueueGet(q) == [q EXCEPT !.cursor = @ + 1]

\* deletes every row up to the cursor
QueueTaskDone(q) == [rows |-> SubSeq(q.rows, q.cursor + 1, Len(q.rows)), cursor |-> 0]

\* ------------------------------------------------------------------- state

VARIABLES
    incoming_dir,         \* incoming_metadata/: file name -> document or Absent
    seen_metadata_dir,    \* seen_metadata/: file name -> document or Absent
    signed_metadata_dir,  \* signed_metadata/entities/: digest -> document or Absent
    full_sync_file,       \* whether the marker file exists
    queue_daily,          \* queue/daily_queue
    queue_delta,          \* queue/delta_queue
    pc,                   \* where the current invocation of main() stands
    full_sync,            \* main's local full_sync
    listing,              \* entries of the os.listdir being iterated, not yet visited
    operations_this_run,  \* main's local operations_this_run
    operations_counter,   \* main's local operations_counter
    queue_str,            \* main's local queue_str
    message,              \* main's local message
    response,             \* the last answer of requests.get in this invocation
    exit,                 \* how the last invocation ended
    runs,                 \* invocations started so far
    edits,                \* interventions from outside (upstream, operator) so far
    log,                  \* what the current invocation has done (history)
    planner               \* the budget computation taken on its own

vars == <<incoming_dir, seen_metadata_dir, signed_metadata_dir, full_sync_file,
          queue_daily, queue_delta, pc, full_sync, listing, operations_this_run,
          operations_counter, queue_str, message, response, exit, runs, edits,
          log, planner>>

\* ------------------------------------------------------- the remote service

NoHeaders == <<>>

ContentType(value) == "Content-Type" :> value

\* str.startswith, on a header value held as a sequence of tokens
StartsWith(value, prefix) ==
    Len(value) >= Len(prefix) /\ SubSeq(value, 1, Len(prefix)) = prefix

\* the signed document the service holds for an entity
SignedDoc(entityid) == Doc(TRUE, entityid, 0)

Response(status, headers, content) ==
    [status_code |-> status, headers |-> headers, content |-> content]

NoResponse == Response(0, NoHeaders, Absent)

\* what requests.get may answer for the entity of a message
Responses(entityid) ==
    { Response(200, ContentType(<<"application/xml">>), SignedDoc(entityid)),
      Response(200, ContentType(<<"application/xml", "; charset=utf-8">>), SignedDoc(entityid)),
      Response(500, ContentType(<<"application/xml">>), SignedDoc(entityid)),
      Response(200, NoHeaders, SignedDoc(entityid)),
      Response(200, ContentType(<<"text/html">>), SignedDoc(entityid)),
      Response(200, ContentType(<<"application/xml">>), Malformed),
      Response(200, ContentType(<<"application/xml">>), Doc(TRUE, NoAttr, 0)),
      Response(200, ContentType(<<"application/xml">>), Doc(TRUE, "", 0)) }

StatusNotChecked(r) == TRUE

\* response.status_code != 200 raises SystemExit
StatusOk(r) == r.status_code = 200

download_unparsed(r) ==
    IF ~StatusOk(r) THEN "mdq returned status"
    ELSE IF "Content-Type" \notin DOMAIN r.headers THEN "mdq returned no content-type"
    ELSE IF ~StartsWith(r.headers["Content-Type"], <<"application/xml">>)
        THEN "mdq returned invalid content-type"
    ELSE ""

\* the checks of download_signed_metadata, in order: "" when the body is moved
\* into place, else the message of the SystemExit that ends the process
download_signed_metadata(r) ==
    IF ~StatusOk(r) THEN "mdq returned status"
    ELSE IF "Content-Type" \notin DOMAIN r.headers THEN "mdq returned no content-type"
    ELSE IF ~StartsWith(r.headers["Content-Type"], <<"application/xml">>)
        THEN "mdq returned invalid content-type"
    ELSE IF xml_to_tree(r.content) = NoTree THEN "mdq returned invalid XML"
    ELSE IF ~Truthy(get_entityid(xml_to_tree(r.content)))
        THEN "mdq returned metadata without entityid"
    ELSE ""

\* --------------------------------------------------------- the budget

\* int(x / y) of Python: the float quotient truncated towards zero
IntDiv(x, y) ==
    IF (x >= 0) = (y > 0) THEN (IF x >= 0 THEN x ELSE -x) \div (IF y > 0 THEN y ELSE -y)
    ELSE -((IF x >= 0 THEN x ELSE -x) \div (IF y > 0 THEN y ELSE -y))

RunsLeftFrom24(hour, RPH) == (24 - hour) * RPH + 1

RunsLeft(hour, RPH) == (23 - hour) * RPH + 1

OperationsWithoutOne(total_queue_size, runs_left, MIN_ENTITIES_PER_RUN) ==
    IntDiv(total_queue_size, runs_left) + MIN_ENTITIES_PER_RUN

OperationsThisRun(total_queue_size, runs_left, MIN_ENTITIES_PER_RUN) ==
    IntDiv(total_queue_size, runs_left) + 1 + MIN_ENTITIES_PER_RUN

PlannerOff == [pc |-> "off", total_queue_size |-> 0, hour |-> 0, RPH |-> 0,
               MIN_ENTITIES_PER_RUN |-> 0, runs_left |-> 0, operations_this_run |-> 0]

\* ------------------------------------------------------------- history

NoMessage == [file |-> "", entityid |-> "", shasum |-> shasum_entityid("")]

\* What an invocation found when it started and what it has done so far.
\* quiet: the previous invocation finished its diff and upstream has not touched
\* incoming_metadata since; marker0, seen0, signed0, daily0, delta0: the marker,
\* the two directories and the rows of the two queues as the invocation found them;
\* dirty: upstream has touched incoming_metadata since the invocation ended;
\* total: total_queue_size as the invocation computed it; left: the message the
\* last fatal fetch left without a task_done, and its queue, until a later
\* invocation has called task_done on that queue.
NewLog(quiet, marker0, seen0, signed0, daily0, delta0, left) ==
    [quiet |-> quiet, marker0 |-> marker0, seen0 |-> seen0, signed0 |-> signed0,
     daily0 |-> daily0, delta0 |-> delta0,
     daily_puts |-> [f \in Files |-> 0], delta_puts |-> [f \in Files |-> 0],
     copied |-> {}, removed |-> {}, unlinked |-> {}, budget |-> 0, gets |-> 0,
     fetches |-> 0, acks |-> 0, written |-> {}, diffdone |-> FALSE, dirty |-> FALSE,
     total |-> 0, left |-> left]

NothingLeft == [queue |-> "", message |-> NoMessage]

\* ------------------------------------------------------------------ Init

\* every directory holding documents of docs under the names of names
Dirs(names, docs) ==
    {dir \in [Files -> docs \cup {Absent}] : \A f \in Files \ names : dir[f] = Absent}

\* a fresh installation: no marker, no snapshot, no queue, nothing fetched yet
Installed ==
    /\ seen_metadata_dir = [f \in Files |-> Absent]
    /\ signed_metadata_dir = [d \in Digests |-> Absent]
    /\ full_sync_file = FALSE
    /\ queue_daily = EmptyQueue
    /\ queue_delta = EmptyQueue
    /\ pc = "idle"
    /\ full_sync = FALSE
    /\ listing = {}
    /\ operations_this_run = 0
    /\ operations_counter = 0
    /\ queue_str = ""
    /\ message = NoMessage
    /\ response = NoResponse
    /\ exit = "none"
    /\ runs = 0
    /\ edits = 0
    /\ log = NewLog(FALSE, FALSE, seen_metadata_dir, signed_metadata_dir, 0, 0,
                    NothingLeft)

\* the feed has delivered any of its documents under two names
Init ==
    /\ incoming_dir \in Dirs(FeedNames, FeedDocs)
    /\ Installed
    /\ planner = PlannerOff

\* the feed has delivered three valid files
InitThree ==
    /\ incoming_dir = [f \in Files |->
                          CASE f = "a.xml" -> Doc(TRUE, "https://idp.example/1", 1)
                            [] f = "b.xml" -> Doc(TRUE, "https://idp.example/2", 1)
                            [] OTHER -> Doc(TRUE, "https://idp.example/1", 2)]
    /\ Installed
    /\ planner = PlannerOff

\* ------------------------------------------------- main: start of a run

AlwaysFullSync(marker) == TRUE

\* not os.path.exists(full_sync_file)
NeedsFullSync(marker) == ~marker

KeepQueue(q, reset) == QueueOpen(q)

\* shutil.rmtree(queues_dir) on a full sync, then SQLiteQueue(...)
OpenQueue(q, reset) == IF reset THEN EmptyQueue ELSE QueueOpen(q)

\* the process is gone: nothing of its memory is left
ProcessExit(status) ==
    /\ pc' = "idle"
    /\ exit' = status
    /\ listing' = {}
    /\ full_sync' = FALSE
    /\ operations_this_run' = 0
    /\ operations_counter' = 0
    /\ queue_str' = ""
    /\ message' = NoMessage
    /\ response' = NoResponse
    /\ queue_daily' = QueueOpen(queue_daily)
    /\ queue_delta' = QueueOpen(queue_delta)

\* main() from its first statement to the opening of the two queues
Invoke ==
    /\ pc = "idle"
    /\ full_sync' = NeedsFullSync(full_sync_file)
    /\ full_sync_file' = TRUE
    /\ queue_daily' = OpenQueue(queue_daily, full_sync')
    /\ queue_delta' = OpenQueue(queue_delta, full_sync')
    /\ listing' = listdir(incoming_dir)
    /\ pc' = "incoming"
    /\ exit' = "none"
    /\ operations_this_run' = 0
    /\ operations_counter' = 0
    /\ queue_str' = ""
    /\ message' = NoMessage
    /\ response' = NoResponse
    /\ log' = NewLog(log.diffdone /\ ~log.dirty, full_sync_file, seen_metadata_dir,
                     signed_metadata_dir, Len(queue_daily.rows), Len(queue_delta.rows),
                     IF full_sync' THEN NothingLeft ELSE log.left)
    /\ UNCHANGED <<incoming_dir, seen_metadata_dir, signed_metadata_dir, edits, planner>>

\* one of the invocations a behaviour counts
Start ==
    /\ runs < MaxRuns
    /\ runs' = runs + 1
    /\ Invoke

\* cron goes on invoking main() after the invocations a behaviour counts
StartRepeat ==
    /\ runs = MaxRuns
    /\ runs' = runs
    /\ Invoke

\* ------------------------------------------------- main: the incoming loop

ModifiedByEntityId(incoming_file, seen_file) ==
    get_entityid_from_file(incoming_file) # get_entityid_from_file(seen_file)

ModifiedAgainstMissing(incoming_file, seen_file) ==
    sha1sum(incoming_file) # sha1sum(Absent)

\* incoming_sha != published_sha
Modified(incoming_file, seen_file) == sha1sum(incoming_file) # sha1sum(seen_file)

ClassifyNewAsBootstrap(full, incoming_file, seen_file) ==
    IF ~Truthy(get_entityid_from_file(incoming_file)) THEN "skip"
    ELSE IF full \/ seen_file = Absent THEN "bootstrap"
    ELSE IF Modified(incoming_file, seen_file) THEN "modified"
    ELSE "unchanged"

ClassifyWithoutSkip(full, incoming_file, seen_file) ==
    IF full THEN "bootstrap"
    ELSE IF seen_file = Absent THEN "new"
    ELSE IF Modified(incoming_file, seen_file) THEN "modified"
    ELSE "unchanged"

\* the branch the loop body takes for one entry
Classify(full, incoming_file, seen_file) ==
    IF ~Truthy(get_entityid_from_file(incoming_file)) THEN "skip"
    ELSE IF full THEN "bootstrap"
    ELSE IF seen_file = Absent THEN "new"
    ELSE IF Modified(incoming_file, seen_file) THEN "modified"
    ELSE "unchanged"

\* shutil.copyfile(incoming_file, seen_metadata_dir + "/" + entity)
copyfile(dir, entity, doc) == [dir EXCEPT ![entity] = doc]

IncomingEntity(entity) ==
    /\ pc = "incoming"
    /\ entity \in listing
    /\ listing' = listing \ {entity}
    /\ LET incoming_file == incoming_dir[entity]
           entityid == get_entityid_from_file(incoming_file)
           message_to_enqueue == [file |-> entity, entityid |-> entityid,
                                  shasum |-> shasum_entityid(entityid)]
           branch == Classify(full_sync, incoming_file, seen_metadata_dir[entity])
       IN  CASE branch = "bootstrap" ->
                  /\ queue_daily' = QueuePut(queue_daily, message_to_enqueue)
                  /\ seen_metadata_dir' = copyfile(seen_metadata_dir, entity, incoming_file)
                  /\ log' = [log EXCEPT !.daily_puts[entity] = @ + 1,
                                        !.copied = @ \cup {entity}]
                  /\ UNCHANGED queue_delta
             [] branch \in {"new", "modified"} ->
                  /\ queue_delta' = QueuePut(queue_delta, message_to_enqueue)
                  /\ seen_metadata_dir' = copyfile(seen_metadata_dir, entity, incoming_file)
                  /\ log' = [log EXCEPT !.delta_puts[entity] = @ + 1,
                                        !.copied = @ \cup {entity}]
                  /\ UNCHANGED queue_daily
             [] OTHER ->
                  UNCHANGED <<queue_daily, queue_delta, seen_metadata_dir, log>>
    /\ UNCHANGED <<incoming_dir, signed_metadata_dir, full_sync_file, pc, full_sync,
                   operations_this_run, operations_counter, queue_str, message,
                   response, exit, runs, edits, planner>>

\* the incoming loop is over: os.listdir(seen_metadata_dir)
IncomingListed ==
    /\ pc = "incoming"
    /\ listing = {}
    /\ listing' = listdir(seen_metadata_dir)
    /\ pc' = "removed"
    /\ UNCHANGED <<incoming_dir, seen_metadata_dir, signed_metadata_dir, full_sync_file,
                   queue_daily, queue_delta, full_sync, operations_this_run,
                   operations_counter, queue_str, message, response, exit, runs,
                   edits, log, planner>>

\* ------------------------------------------------- main: the removed loop

KeepSigned(dir, entity_sha) == dir

\* os.remove(signed_metadata_dir + "/%7Bsha1%7D" + entity_sha) if it exists
RemoveSigned(dir, entity_sha) == [dir EXCEPT ![entity_sha] = Absent]

RemovedEntity(entity) ==
    /\ pc = "removed"
    /\ entity \in listing
    /\ LET entityid == get_entityid_from_file(seen_metadata_dir[entity])
           entity_sha == shasum_entityid(entityid)
       IN  IF incoming_dir[entity] # Absent
           THEN /\ listing' = listing \ {entity}
                /\ UNCHANGED <<seen_metadata_dir, signed_metadata_dir, log, pc, exit,
                               full_sync, operations_this_run, operations_counter,
                               queue_str, queue_daily, queue_delta, message, response>>
           ELSE IF entityid = None
           \* None.encode: AttributeError, the process dies with a traceback
           THEN /\ ProcessExit("crash")
                /\ UNCHANGED <<seen_metadata_dir, signed_metadata_dir, log>>
           ELSE /\ listing' = listing \ {entity}
                /\ seen_metadata_dir' = [seen_metadata_dir EXCEPT ![entity] = Absent]
                /\ signed_metadata_dir' = RemoveSigned(signed_metadata_dir, entity_sha)
                /\ log' = [log EXCEPT !.removed = @ \cup {entity},
                                      !.unlinked = @ \cup
                                          IF signed_metadata_dir[entity_sha] # Absent
                                          THEN {entity_sha} ELSE {}]
                /\ UNCHANGED <<pc, exit, full_sync, operations_this_run,
                               operations_counter, queue_str, queue_daily, queue_delta,
                               message, response>>
    /\ UNCHANGED <<incoming_dir, full_sync_file, runs, edits, planner>>

TotalQueueSize == QueueSize(queue_daily) + QueueSize(queue_delta)

\* the removed loop is over: total_queue_size
RemovedListed ==
    /\ pc = "removed"
    /\ listing = {}
    /\ pc' = "plan"
    /\ log' = [log EXCEPT !.diffdone = TRUE, !.total = TotalQueueSize]
    /\ UNCHANGED <<incoming_dir, seen_metadata_dir, signed_metadata_dir, full_sync_file,
                   queue_daily, queue_delta, full_sync, listing, operations_this_run,
                   operations_counter, queue_str, message, response, exit, runs,
                   edits, planner>>

\* ------------------------------------------------- main: the budget

\* total_queue_size == 0: sys.exit()
NoUpdates ==
    /\ pc = "plan"
    /\ TotalQueueSize = 0
    /\ ProcessExit("ok")
    /\ UNCHANGED <<incoming_dir, seen_metadata_dir, signed_metadata_dir, full_sync_file,
                   runs, edits, log, planner>>

\* hour, RPH and MIN_ENTITIES_PER_RUN are read when main starts; nothing before
\* this point depends on them, so they are drawn here
Plan ==
    /\ pc = "plan"
    /\ TotalQueueSize # 0
    /\ \E hour \in Hours, RPH \in 0..MaxRPH, MIN_ENTITIES_PER_RUN \in 0..MaxMinPerRun :
          operations_this_run' =
              OperationsThisRun(TotalQueueSize, RunsLeft(hour, RPH), MIN_ENTITIES_PER_RUN)
    /\ operations_counter' = 0
    /\ pc' = "drain"
    /\ log' = [log EXCEPT !.budget = operations_this_run']
    /\ UNCHANGED <<incoming_dir, seen_metadata_dir, signed_metadata_dir, full_sync_file,
                   queue_daily, queue_delta, full_sync, listing, queue_str, message,
                   response, exit, runs, edits, planner>>

\* ------------------------------------------------- main: the drain loop

SelectDailyFirst(delta_size, daily_size) ==
    IF daily_size # 0 THEN "daily"
    ELSE IF delta_size # 0 THEN "delta"
    ELSE ""

\* queue_str as the loop body sets it; "" is the break
SelectQueue(delta_size, daily_size) ==
    IF delta_size # 0 THEN "delta"
    ELSE IF daily_size # 0 THEN "daily"
    ELSE ""

WhileOneMore(counter, operations) == counter <= operations

\* while operations_counter < operations_this_run
WhileCondition(counter, operations) == counter < operations

\* the loop condition is false
BudgetSpent ==
    /\ pc = "drain"
    /\ ~WhileCondition(operations_counter, operations_this_run)
    /\ ProcessExit("ok")
    /\ UNCHANGED <<incoming_dir, seen_metadata_dir, signed_metadata_dir, full_sync_file,
                   runs, edits, log, planner>>

\* "Queues are empty!": break
QueuesEmpty ==
    /\ pc = "drain"
    /\ WhileCondition(operations_counter, operations_this_run)
    /\ SelectQueue(QueueSize(queue_delta), QueueSize(queue_daily)) = ""
    /\ ProcessExit("ok")
    /\ UNCHANGED <<incoming_dir, seen_metadata_dir, signed_metadata_dir, full_sync_file,
                   runs, edits, log, planner>>

\* message = queue.get()
Dequeue ==
    /\ pc = "drain"
    /\ WhileCondition(operations_counter, operations_this_run)
    /\ LET selected == SelectQueue(QueueSize(queue_delta), QueueSize(queue_daily))
       IN  /\ selected # ""
           /\ queue_str' = selected
           /\ IF selected = "delta"
              THEN /\ message' = QueueFront(queue_delta)
                   /\ queue_delta' = QueueGet(queue_delta)
                   /\ UNCHANGED queue_daily
              ELSE /\ message' = QueueFront(queue_daily)
                   /\ queue_daily' = QueueGet(queue_daily)
                   /\ UNCHANGED queue_delta
    /\ pc' = "fetch"
    /\ log' = [log EXCEPT !.gets = @ + 1]
    /\ UNCHANGED <<incoming_dir, seen_metadata_dir, signed_metadata_dir, full_sync_file,
                   full_sync, listing, operations_this_run, operations_counter,
                   response, exit, runs, edits, planner>>

SourceAlwaysExists(dir, file) == TRUE

\* os.path.exists(incoming_dir + "/" + file)
SourceExists(dir, file) == dir[file] # Absent

\* the file is there: requests.get(metadata_url)
HttpGet ==
    /\ pc = "fetch"
    /\ SourceExists(incoming_dir, message.file)
    /\ \E r \in Responses(message.entityid) : response' = r
    /\ pc' = "check"
    /\ log' = [log EXCEPT !.fetches = @ + 1]
    /\ UNCHANGED <<incoming_dir, seen_metadata_dir, signed_metadata_dir, full_sync_file,
                   queue_daily, queue_delta, full_sync, listing, operations_this_run,
                   operations_counter, queue_str, message, exit, runs, edits, planner>>

\* the rest of download_signed_metadata: the checks, then shutil.move into place
Download ==
    /\ pc = "check"
    /\ IF download_signed_metadata(response) = ""
       THEN /\ signed_metadata_dir' =
                   [signed_metadata_dir EXCEPT ![message.shasum] = response.content]
            /\ log' = [log EXCEPT !.written = @ \cup {message.shasum}]
            /\ pc' = "ack"
            /\ UNCHANGED <<exit, listing, full_sync, operations_this_run, message,
                           operations_counter, queue_str, queue_daily, queue_delta,
                           response>>
       ELSE \* raise SystemExit(...)
            /\ ProcessExit("fatal")
            /\ log' = [log EXCEPT !.left = [queue |-> queue_str, message |-> message]]
            /\ UNCHANGED signed_metadata_dir
    /\ UNCHANGED <<incoming_dir, seen_metadata_dir, full_sync_file, runs, edits, planner>>

\* "... not available in incoming_dir - probably removed by upstream"
SkipFetch ==
    /\ pc = "fetch"
    /\ ~SourceExists(incoming_dir, message.file)
    /\ pc' = "ack"
    /\ UNCHANGED <<incoming_dir, seen_metadata_dir, signed_metadata_dir, full_sync_file,
                   queue_daily, queue_delta, full_sync, listing, operations_this_run,
                   operations_counter, queue_str, message, response, exit, runs,
                   edits, log, planner>>

\* queue.task_done(); operations_counter += 1
TaskDone ==
    /\ pc = "ack"
    /\ IF queue_str = "delta"
       THEN queue_delta' = QueueTaskDone(queue_delta) /\ UNCHANGED queue_daily
       ELSE queue_daily' = QueueTaskDone(queue_daily) /\ UNCHANGED queue_delta
    /\ operations_counter' = operations_counter + 1
    /\ pc' = "drain"
    /\ log' = [log EXCEPT !.acks = @ + 1,
                          !.left = IF @.queue = queue_str THEN NothingLeft ELSE @]
    /\ UNCHANGED <<incoming_dir, seen_metadata_dir, signed_metadata_dir, full_sync_file,
                   full_sync, listing, operations_this_run, queue_str, message,
                   response, exit, runs, edits, planner>>

\* ------------------------------------------------- upstream, between runs

\* Init draws the directory the first run finds, and an edit after the last run of
\* a behaviour is seen by no run: upstream acts between two runs
BetweenRuns == 0 < runs /\ runs < MaxRuns

\* the federation's feed writes or replaces a file of incoming_metadata
UpstreamWrite(entity, doc) ==
    /\ pc = "idle"
    /\ edits < MaxEdits
    /\ BetweenRuns
    /\ doc # incoming_dir[entity]
    /\ incoming_dir' = [incoming_dir EXCEPT ![entity] = doc]
    /\ edits' = edits + 1
    /\ log' = [log EXCEPT !.dirty = TRUE]
    /\ UNCHANGED <<seen_metadata_dir, signed_metadata_dir, full_sync_file, queue_daily,
                   queue_delta, pc, full_sync, listing, operations_this_run,
                   operations_counter, queue_str, message, response, exit, runs, planner>>

\* the feed drops a file of incoming_metadata
UpstreamRemove(entity) ==
    /\ pc = "idle"
    /\ edits < MaxEdits
    /\ BetweenRuns
    /\ incoming_dir[entity] # Absent
    /\ incoming_dir' = [incoming_dir EXCEPT ![entity] = Absent]
    /\ edits' = edits + 1
    /\ log' = [log EXCEPT !.dirty = TRUE]
    /\ UNCHANGED <<seen_metadata_dir, signed_metadata_dir, full_sync_file, queue_daily,
                   queue_delta, pc, full_sync, listing, operations_this_run,
                   operations_counter, queue_str, message, response, exit, runs, planner>>

\* the operator deletes the marker to force a new full sync
OperatorRemovesMarker ==
    /\ pc = "idle"
    /\ full_sync_file
    /\ edits < MaxEdits
    /\ BetweenRuns
    /\ full_sync_file' = FALSE
    /\ edits' = edits + 1
    /\ UNCHANGED <<incoming_dir, seen_metadata_dir, signed_metadata_dir, queue_daily,
                   queue_delta, pc, full_sync, listing, operations_this_run,
                   operations_counter, queue_str, message, response, exit, runs,
                   log, planner>>

\* ------------------------------------------------- specifications

Run ==
    \/ Start
    \/ \E entity \in Files : IncomingEntity(entity)
    \/ IncomingListed
    \/ \E entity \in Files : RemovedEntity(entity)
    \/ RemovedListed
    \/ NoUpdates
    \/ Plan
    \/ BudgetSpent
    \/ QueuesEmpty
    \/ Dequeue
    \/ HttpGet
    \/ Download
    \/ SkipFetch
    \/ TaskDone

Upstream ==
    \/ \E entity \in FeedNames, doc \in FeedDocs : UpstreamWrite(entity, doc)
    \/ \E entity \in FeedNames : UpstreamRemove(entity)

Next == Run \/ Upstream

Spec == Init /\ [][Next]_vars

NextForced == Next \/ OperatorRemovesMarker

SpecForced == Init /\ [][NextForced]_vars

SpecThree == InitThree /\ [][Next]_vars

\* ------------------------------------------------- cron keeps running

\* the feed has delivered two valid files
InitTwo ==
    /\ incoming_dir = [f \in Files |->
                          CASE f = "a.xml" -> Doc(TRUE, "https://idp.example/1", 1)
                            [] f = "b.xml" -> Doc(TRUE, "https://idp.example/2", 1)
                            [] OTHER -> Absent]
    /\ Installed
    /\ planner = PlannerOff

RunLive == Run \/ StartRepeat

NextLive == RunLive \/ Upstream

\* cron starts main() again and again, and a started main() runs to its end
SpecLive == InitTwo /\ [][NextLive]_vars /\ WF_vars(RunLive)

\* ------------------------------------------------- a feed with broken files

\* the feed also delivers files that are well-formed but carry no entityID, or
\* an empty one
InitFeed ==
    /\ incoming_dir \in Dirs(FeedNames, BrokenFeedDocs)
    /\ Installed
    /\ planner = PlannerOff

UpstreamFeed ==
    \/ \E entity \in FeedNames, doc \in BrokenFeedDocs : UpstreamWrite(entity, doc)
    \/ \E entity \in FeedNames : UpstreamRemove(entity)

NextFeed == Run \/ UpstreamFeed

SpecFeed == InitFeed /\ [][NextFeed]_vars

\* ------------------------------------------------- a truncated seen copy

\* An earlier invocation, not a full sync, found a new file, put its message on
\* the delta queue and was killed inside shutil.copyfile: the marker exists, the
\* row is committed and the seen copy is cut short, so it no longer parses.
\* Upstream may have rewritten or dropped the file since.
InitSeeded ==
    /\ incoming_dir \in Dirs(FeedNames, FeedDocs)
    /\ \E entity \in {"a.xml"}, doc \in {Doc(TRUE, "https://idp.example/1", 1)} :
          /\ seen_metadata_dir = [f \in Files |-> IF f = entity THEN Malformed ELSE Absent]
          /\ queue_delta = QueuePut(EmptyQueue,
                                    [file |-> entity,
                                     entityid |-> get_entityid_from_file(doc),
                                     shasum |-> shasum_entityid(get_entityid_from_file(doc))])
    /\ signed_metadata_dir = [d \in Digests |-> Absent]
    /\ full_sync_file = TRUE
    /\ queue_daily = EmptyQueue
    /\ pc = "idle"
    /\ full_sync = FALSE
    /\ listing = {}
    /\ operations_this_run = 0
    /\ operations_counter = 0
    /\ queue_str = ""
    /\ message = NoMessage
    /\ response = NoResponse
    /\ exit = "none"
    /\ runs = 0
    /\ edits = 0
    /\ log = NewLog(FALSE, TRUE, seen_metadata_dir, signed_metadata_dir, 0, 1,
                    NothingLeft)
    /\ planner = PlannerOff

SpecSeeded == InitSeeded /\ [][Next]_vars

\* ------------------------------------------------- the budget on its own

InitPlanner ==
    /\ incoming_dir = [f \in Files |-> Absent]
    /\ Installed
    /\ \E total \in 0..MaxPending, hour \in Hours, RPH \in 0..MaxRPH,
          MIN_ENTITIES_PER_RUN \in 0..MaxMinPerRun :
          planner = [PlannerOff EXCEPT !.pc = "runs_left", !.total_queue_size = total,
                                       !.hour = hour, !.RPH = RPH,
                                       !.MIN_ENTITIES_PER_RUN = MIN_ENTITIES_PER_RUN]

\* runs_left = (23 - hour) * RPH + 1
ComputeRunsLeft ==
    /\ planner.pc = "runs_left"
    /\ planner' = [planner EXCEPT !.runs_left = RunsLeft(planner.hour, planner.RPH),
                                  !.pc = "operations_this_run"]
    /\ UNCHANGED <<incoming_dir, seen_metadata_dir, signed_metadata_dir, full_sync_file,
                   queue_daily, queue_delta, pc, full_sync, listing,
                   operations_this_run, operations_counter, queue_str, message,
                   response, exit, runs, edits, log>>

\* operations_this_run = int(total_queue_size / runs_left) + 1 + MIN_ENTITIES_PER_RUN
ComputeOperations ==
    /\ planner.pc = "operations_this_run"
    /\ planner' = [planner EXCEPT
                      !.operations_this_run =
                          OperationsThisRun(planner.total_queue_size, planner.runs_left,
                                            planner.MIN_ENTITIES_PER_RUN),
                      !.pc = "done"]
    /\ UNCHANGED <<incoming_dir, seen_metadata_dir, signed_metadata_dir, full_sync_file,
                   queue_daily, queue_delta, pc, full_sync, listing,
                   operations_this_run, operations_counter, queue_str, message,
                   response, exit, runs, edits, log>>

NextPlanner == ComputeRunsLeft \/ ComputeOperations

SpecPlanner == InitPlanner /\ [][NextPlanner]_vars

\* ------------------------------------------------- vocabulary of the properties

\* the file parses and its root carries a usable entityID
Parses(doc) == doc # Absent /\ Truthy(get_entityid_from_file(doc))

\* the message the diff builds for a file
MessageFor(entity, doc) ==
    [file |-> entity, entityid |-> get_entityid_from_file(doc),
     shasum |-> shasum_entityid(get_entityid_from_file(doc))]

\* a row for the file is still in the table of the queue
Pending(q, entity) == \E i \in DOMAIN q.rows : q.rows[i].file = entity

\* the rows the current run has appended to a queue that held n rows before
RowsPut(q, n) == SubSeq(q.rows, n + 1, Len(q.rows))

\* how many of the rows are for the file
CountFor(rows, entity) == Cardinality({i \in DOMAIN rows : rows[i].file = entity})

InRun == pc # "idle"

\* the run is past its incoming loop
AfterIncoming == pc \in {"removed", "plan", "drain", "fetch", "check", "ack"}

\* the run is over and nothing has happened since
RunEnded == pc = "idle" /\ runs > 0 /\ ~log.dirty

Min(a, b) == IF a < b THEN a ELSE b

\* ------------------------------------------------- C1

\* C1: at the end of every run that finished its diff (ended normally or on a
\* fatal fetch), every incoming file that parses with an entity identifier has a
\* seen copy equal to it, or a message for it is still in one of the queues.
C1_SeenEqualsIncomingOrPending ==
    (RunEnded /\ log.diffdone /\ exit \in {"ok", "fatal"}) =>
        \A f \in Files :
            Parses(incoming_dir[f]) =>
                \/ seen_metadata_dir[f] = incoming_dir[f]
                \/ Pending(queue_daily, f)
                \/ Pending(queue_delta, f)

\* a run over a modified file was aborted by a fatal fetch: the modified file is
\* in the snapshot with nothing pending for it, another message is still queued
C1_Witness ==
    /\ RunEnded /\ log.diffdone /\ exit = "fatal" /\ runs = 2
    /\ \E f \in Files :
          /\ Parses(incoming_dir[f])
          /\ f \in log.copied
          /\ seen_metadata_dir[f] = incoming_dir[f]
          /\ ~Pending(queue_daily, f) /\ ~Pending(queue_delta, f)
    /\ \E g \in Files : Pending(queue_daily, g) \/ Pending(queue_delta, g)

\* ------------------------------------------------- C2

\* C2: when a run's diff follows another run's diff with incoming_metadata
\* unchanged in between, the second diff enqueues nothing on either queue and
\* creates, overwrites or deletes no file of seen_metadata or signed_metadata.
C2_IdempotentResync ==
    (InRun /\ log.quiet) =>
        /\ seen_metadata_dir = log.seen0
        /\ log.copied = {} /\ log.removed = {} /\ log.unlinked = {}
        /\ \A f \in Files : log.daily_puts[f] = 0 /\ log.delta_puts[f] = 0
        /\ pc \in {"incoming", "removed", "plan"} =>
              /\ signed_metadata_dir = log.signed0
              /\ Len(queue_daily.rows) = log.daily0
              /\ Len(queue_delta.rows) = log.delta0

\* a second diff over an unchanged directory that holds a parseable file, with a
\* backlog left by the first run, is over
C2_Witness ==
    /\ pc = "plan" /\ log.quiet /\ runs = 2
    /\ \E f \in Files : Parses(incoming_dir[f]) /\ seen_metadata_dir[f] = incoming_dir[f]
    /\ Len(queue_daily.rows) > 0

\* ------------------------------------------------- C3

\* C3: in a run that is not a full sync, once the incoming loop is over every
\* parseable incoming file that was new (no seen file) or modified (digest differs
\* from the seen copy) has exactly one message put by this run, on the delta queue
\* and none on the daily queue, and its seen copy equals the incoming content; an
\* unchanged file has no message put and no snapshot write.
C3_IncrementalDiff ==
    (AfterIncoming /\ ~full_sync) =>
        \A f \in Files :
            Parses(incoming_dir[f]) =>
                IF log.seen0[f] = Absent \/ log.seen0[f] # incoming_dir[f]
                THEN /\ log.delta_puts[f] = 1
                     /\ log.daily_puts[f] = 0
                     /\ f \in log.copied
                     /\ seen_metadata_dir[f] = incoming_dir[f]
                     /\ pc = "removed" =>
                           /\ CountFor(RowsPut(queue_delta, log.delta0), f) = 1
                           /\ \E i \in DOMAIN queue_delta.rows :
                                 /\ i > log.delta0
                                 /\ queue_delta.rows[i] = MessageFor(f, incoming_dir[f])
                           /\ Len(queue_daily.rows) = log.daily0
                ELSE /\ log.delta_puts[f] = 0
                     /\ log.daily_puts[f] = 0
                     /\ f \notin log.copied
                     /\ seen_metadata_dir[f] = log.seen0[f]
                     /\ pc = "removed" =>
                           CountFor(RowsPut(queue_delta, log.delta0), f) = 0

\* the incoming loop of an incremental run has met a modified and an unchanged file
C3_Witness ==
    /\ pc = "removed" /\ ~full_sync
    /\ \E f, g \in Files :
          /\ Parses(incoming_dir[f]) /\ Parses(incoming_dir[g])
          /\ log.seen0[f] # Absent /\ log.seen0[f] # incoming_dir[f]
          /\ log.seen0[g] = incoming_dir[g]
          /\ Len(queue_delta.rows) = log.delta0 + 1

\* ------------------------------------------------- C4

\* the removed loop has deleted the seen copy and the signed entry of every file
\* the run found in seen_metadata and not in incoming_metadata
C4_Removed ==
    pc = "plan" =>
        \A f \in Files :
            (log.seen0[f] # Absent /\ incoming_dir[f] = Absent) =>
                /\ seen_metadata_dir[f] = Absent
                /\ signed_metadata_dir[
                       shasum_entityid(get_entityid_from_file(log.seen0[f]))] = Absent

\* a step of the removed loop leaves both queues alone and fetches nothing
C4_Frame ==
    pc = "removed" =>
        /\ queue_daily'.rows = queue_daily.rows
        /\ queue_delta'.rows = queue_delta.rows
        /\ QueueSize(queue_daily') = QueueSize(queue_daily)
        /\ QueueSize(queue_delta') = QueueSize(queue_delta)
        /\ log'.gets = log.gets /\ log'.fetches = log.fetches /\ log'.acks = log.acks
        /\ log'.daily_puts = log.daily_puts /\ log'.delta_puts = log.delta_puts
        /\ response' = response

\* C4: for every file in seen_metadata and absent from incoming_metadata at diff
\* time, the same run deletes the seen copy and the signed_metadata entry keyed by
\* the digest of its entity identifier, and the removal neither enqueues, dequeues
\* nor acks a message on either queue and triggers no fetch.
C4_RemovalIsImmediateAndUnqueued == []C4_Removed /\ [][C4_Frame]_vars

\* a removed loop has deleted a seen copy and the signed entry fetched for it
C4_Witness ==
    /\ pc = "plan"
    /\ \E f \in log.removed :
          /\ log.seen0[f] # Absent /\ incoming_dir[f] = Absent
          /\ shasum_entityid(get_entityid_from_file(log.seen0[f])) \in log.unlinked

\* ------------------------------------------------- C5

\* C5: in a run that starts with the marker absent, the marker is created, both
\* queues are empty before the diff begins whatever they held before, and after
\* the incoming loop every parseable incoming file has exactly one message on the
\* daily (bootstrap) queue, none on the delta queue, and a seen copy equal to its
\* incoming content, whether or not a seen copy existed or was identical.
C5_FullSync ==
    (InRun /\ ~log.marker0) =>
        /\ full_sync_file
        /\ (pc = "incoming" /\ listing = listdir(incoming_dir)) =>
              queue_daily.rows = <<>> /\ queue_delta.rows = <<>>
        /\ pc = "removed" =>
              /\ queue_delta.rows = <<>>
              /\ \A f \in Files :
                    IF Parses(incoming_dir[f])
                    THEN /\ CountFor(queue_daily.rows, f) = 1
                         /\ \E i \in DOMAIN queue_daily.rows :
                               queue_daily.rows[i] = MessageFor(f, incoming_dir[f])
                         /\ seen_metadata_dir[f] = incoming_dir[f]
                    ELSE CountFor(queue_daily.rows, f) = 0

\* a forced full sync over a daily queue that held messages and a snapshot that
\* already had an identical copy of a file has finished its incoming loop
C5_Witness ==
    /\ pc = "removed" /\ ~log.marker0 /\ runs = 2
    /\ log.daily0 > 0
    /\ \E f \in Files : Parses(incoming_dir[f]) /\ log.seen0[f] = incoming_dir[f]

\* ------------------------------------------------- C6

\* the first run over three valid files has ended without a fatal fetch
C6_FirstRunOverThree ==
    /\ RunEnded /\ runs = 1 /\ exit = "ok"
    /\ \A f \in Files : Parses(incoming_dir[f])

\* C6 as stated: in the first-ever run over three valid incoming files with every
\* fetch succeeding the fetcher is called three times, whatever the hour, RPH and
\* MIN_ENTITIES_PER_RUN.
C6_ThreeFetches == C6_FirstRunOverThree => log.fetches = 3

\* C6 as amended: in the first-ever run over three valid incoming files with
\* every fetch succeeding the fetcher is called min(3, operations_this_run) times,
\* operations_this_run being at least 1; it is called three times exactly when
\* operations_this_run >= 3.
C6_FetchesUpToBudget ==
    C6_FirstRunOverThree =>
        /\ log.budget >= 1
        /\ log.fetches = Min(3, log.budget)
        /\ log.acks = log.fetches
        /\ log.fetches = 3 <=> log.budget >= 3

\* the first run over three valid files fetched all three
C6_Witness == C6_FirstRunOverThree /\ log.fetches = 3 /\ log.budget >= 3

\* ------------------------------------------------- C7

\* only the first run is a full sync
C7_OnlyFirstIsFullSync == (InRun /\ full_sync) => runs = 1

\* from the second run on no step resets a queue or lengthens the daily queue
C7_NoResetNoBootstrap ==
    runs' >= 2 =>
        /\ Len(queue_daily'.rows) <= Len(queue_daily.rows)
        /\ runs' = runs + 1 =>
              queue_daily'.rows = queue_daily.rows /\ queue_delta'.rows = queue_delta.rows
        /\ log'.daily_puts = [f \in Files |-> 0]

\* C7: across any sequence of runs (aborted ones included) at most one run is a
\* full sync and it is the first: once the marker exists no later run resets the
\* queues or puts on the daily queue, so from the second run on its size never grows.
C7_FullSyncOnlyOnce == []C7_OnlyFirstIsFullSync /\ [][C7_NoResetNoBootstrap]_vars

\* the second run has put a message on the delta
\* queue and left the backlog of the daily queue alone
C7_Witness ==
    /\ pc = "plan" /\ runs = 2 /\ ~full_sync
    /\ Len(queue_daily.rows) > 0 /\ Len(queue_daily.rows) = log.daily0
    /\ Len(queue_delta.rows) > log.delta0

\* ------------------------------------------------- C8

\* C8: for every hour in 0..23, RPH >= 0, MIN_ENTITIES_PER_RUN >= 0 and pending
\* depth >= 0, runs_left = (23 - hour) * RPH + 1 >= 1 and operations_this_run =
\* floor(pending / runs_left) + 1 + MIN_ENTITIES_PER_RUN >= 1; for (100, 23, 1, 0)
\* it is 101.
C8_Budget ==
    /\ planner.pc \in {"operations_this_run", "done"} =>
          /\ planner.runs_left = (23 - planner.hour) * planner.RPH + 1
          /\ planner.runs_left >= 1
    /\ planner.pc = "done" =>
          /\ planner.operations_this_run =
                 (planner.total_queue_size \div planner.runs_left) + 1
                     + planner.MIN_ENTITIES_PER_RUN
          /\ planner.operations_this_run >= 1
          /\ (/\ planner.total_queue_size = 100 /\ planner.hour = 23
              /\ planner.RPH = 1 /\ planner.MIN_ENTITIES_PER_RUN = 0)
                 => planner.operations_this_run = 101

\* the budget of 100 pending at hour 23 with RPH 1 and no minimum has been computed
C8_Witness ==
    /\ planner.pc = "done"
    /\ planner.total_queue_size = 100 /\ planner.hour = 23
    /\ planner.RPH = 1 /\ planner.MIN_ENTITIES_PER_RUN = 0
    /\ planner.runs_left = 1 /\ planner.operations_this_run = 101

\* ------------------------------------------------- C9

\* a dequeue takes the head of the delta queue while it holds a message, and the
\* head of the daily queue only when the delta queue is empty
C9_Dequeue ==
    (pc = "drain" /\ pc' = "fetch") =>
        IF QueueSize(queue_delta) > 0
        THEN /\ queue_str' = "delta"
             /\ message' = Head(queue_delta.rows)
             /\ QueueSize(queue_delta') = QueueSize(queue_delta) - 1
             /\ queue_daily' = queue_daily
        ELSE /\ queue_str' = "daily"
             /\ message' = Head(queue_daily.rows)
             /\ QueueSize(queue_daily') = QueueSize(queue_daily) - 1
             /\ queue_delta' = queue_delta

\* the daily queue gives out a message only at a moment the delta queue is empty
C9_DailyOnlyWhenDeltaEmpty ==
    QueueSize(queue_daily') < QueueSize(queue_daily) /\ InRun =>
        QueueSize(queue_delta) = 0

\* C9: in every run a message is dequeued from the daily (bootstrap) queue only
\* at a moment when the delta (incremental) queue is empty; as long as the delta
\* queue holds a message the next dequeue takes its head.
C9_DeltaBeforeDaily == [][C9_Dequeue /\ C9_DailyOnlyWhenDeltaEmpty]_vars

\* a message was taken from the delta queue while the daily queue held a backlog
C9_Witness ==
    /\ pc = "fetch" /\ queue_str = "delta"
    /\ QueueSize(queue_daily) > 0
    /\ message = Head(queue_delta.rows)

\* ------------------------------------------------- C10

\* the answer is not a 200: the process exits at once, nothing is written
C10_Abort ==
    (pc = "check" /\ response.status_code # 200) =>
        /\ pc' = "idle" /\ exit' = "fatal"
        /\ signed_metadata_dir' = signed_metadata_dir
        /\ queue_daily'.rows = queue_daily.rows
        /\ queue_delta'.rows = queue_delta.rows
        /\ [log' EXCEPT !.left = log.left] = log

\* once a run has ended on a fatal fetch nothing is dequeued, fetched, acked or
\* written until another run starts
C10_NothingAfter ==
    (pc = "idle" /\ exit = "fatal" /\ runs' = runs) =>
        /\ pc' = "idle" /\ exit' = "fatal"
        /\ signed_metadata_dir' = signed_metadata_dir
        /\ queue_daily' = queue_daily /\ queue_delta' = queue_delta
        /\ log'.gets = log.gets /\ log'.fetches = log.fetches /\ log'.acks = log.acks
        /\ log'.written = log.written

\* C10: when the remote service answers a fetch with a status other than 200, the
\* run terminates immediately with a non-zero exit: after that fetch no further
\* message is dequeued, fetched or acked in that run and no file of
\* signed_metadata is written.
C10_Non200IsFatal == [][C10_Abort /\ C10_NothingAfter]_vars

\* a fetch was answered 500 while further messages wait in the queues
C10_Witness ==
    /\ pc = "check" /\ response.status_code = 500
    /\ TotalQueueSize > 0
    /\ log.acks > 0

\* ------------------------------------------------- C11

QueueOf(name, daily, delta) == IF name = "delta" THEN delta ELSE daily

QueueNamed(name) == QueueOf(name, queue_daily, queue_delta)

\* the response passed the five checks of download_signed_metadata
Passed(r) ==
    /\ r.status_code = 200
    /\ "Content-Type" \in DOMAIN r.headers
    /\ StartsWith(r.headers["Content-Type"], <<"application/xml">>)
    /\ r.content.wellformed
    /\ r.content.entityID \notin {NoAttr, ""}

\* a task_done follows a fetch that succeeded or a skip, and deletes the row of
\* the message it is for
C11_AckOnlyAfterSuccessOrSkip ==
    [][log'.acks > log.acks =>
          /\ pc = "ack"
          /\ queue_str \in {"delta", "daily"}
          /\ Head(QueueNamed(queue_str).rows) = message
          /\ QueueOf(queue_str, queue_daily', queue_delta').rows =
                 Tail(QueueNamed(queue_str).rows)
          /\ \/ ~SourceExists(incoming_dir, message.file)
             \/ /\ Passed(response)
                /\ message.shasum \in log.written
                /\ signed_metadata_dir[message.shasum] = response.content]_vars

\* the fatal fetch ends the invocation without a task_done: the row of the
\* message stays at the head of its queue
C11_FatalLeavesRow ==
    [][exit' = "fatal" /\ pc # "idle" =>
          /\ pc = "check"
          /\ ~Passed(response)
          /\ log'.acks = log.acks
          /\ queue_daily'.rows = queue_daily.rows
          /\ queue_delta'.rows = queue_delta.rows
          /\ Head(QueueOf(queue_str, queue_daily', queue_delta').rows) = message
          /\ QueueOf(queue_str, queue_daily', queue_delta').cursor = 0
          /\ log'.left = [queue |-> queue_str, message |-> message]]_vars

\* a row leaves a queue only by the task_done for it, or by the reset of a full sync
C11_RowsLeaveByTaskDone ==
    [][\A name \in {"delta", "daily"} :
          LET rows == QueueNamed(name).rows
              rows_after == QueueOf(name, queue_daily', queue_delta').rows
          IN  \/ rows_after = rows
              \/ /\ Len(rows_after) = Len(rows) + 1
                 /\ SubSeq(rows_after, 1, Len(rows)) = rows
              \/ pc = "ack" /\ queue_str = name /\ rows_after = Tail(rows)
              \/ pc = "idle" /\ full_sync' /\ rows_after = <<>>]_vars

\* until it is acknowledged the message left behind heads its queue, and the next
\* get from that queue, in a later invocation, returns it
C11_Redelivered ==
    log.left.queue # "" =>
        /\ QueueNamed(log.left.queue).rows # <<>>
        /\ Head(QueueNamed(log.left.queue).rows) = log.left.message
        /\ (pc \in {"fetch", "check", "ack"} /\ queue_str = log.left.queue
               => message = log.left.message)

\* C11: a message is acknowledged (task_done) only after its fetch succeeded or
\* was skipped; the message whose fetch was fatal is dequeued but never
\* acknowledged, so after the aborted invocation it is still at the head of its
\* queue and a later invocation's drain gets it again; no dequeued message leaves
\* a queue without having been acknowledged.
C11_UnackedIsRedelivered ==
    /\ C11_AckOnlyAfterSuccessOrSkip
    /\ C11_FatalLeavesRow
    /\ C11_RowsLeaveByTaskDone
    /\ []C11_Redelivered

\* the second invocation has fetched the message the first one left behind
C11_Witness ==
    /\ runs = 2
    /\ pc = "ack"
    /\ log.left.queue = queue_str
    /\ message = log.left.message
    /\ message.shasum \in log.written

\* ------------------------------------------------- C12

\* an entry of signed_metadata is created or overwritten only by the fetch whose
\* answer passed the five checks, with that answer's body, under the digest of
\* the message
C12_WrittenOnlyChecked ==
    [][(\E d \in Digests : /\ signed_metadata_dir'[d] # signed_metadata_dir[d]
                           /\ signed_metadata_dir'[d] # Absent) =>
          /\ pc = "check"
          /\ Passed(response)
          /\ signed_metadata_dir' =
                 [signed_metadata_dir EXCEPT ![message.shasum] = response.content]]_vars

\* an answer that fails a check ends the invocation and leaves signed_metadata,
\* any earlier entry for the same digest included, as it was
C12_FailedCheckIsFatal ==
    [][pc = "check" /\ ~Passed(response) =>
          /\ pc' = "idle"
          /\ exit' = "fatal"
          /\ signed_metadata_dir' = signed_metadata_dir]_vars

\* an answer that passes every check is moved into place
C12_CheckedIsWritten ==
    [][pc = "check" /\ Passed(response) =>
          /\ pc' = "ack"
          /\ signed_metadata_dir'[message.shasum] = response.content]_vars

\* C12: validate before publish. A signed entry is created or overwritten only
\* with a body that passed all five checks (status 200, Content-Type present,
\* Content-Type starting with application/xml, well-formed XML, non-empty
\* identifier on the root); if any check fails the fetch is fatal and the signed
\* store, a prior entry for that digest included, is unchanged.
C12_ValidateBeforePublish ==
    /\ C12_WrittenOnlyChecked
    /\ C12_FailedCheckIsFatal
    /\ C12_CheckedIsWritten

\* a fetch for a digest that already has an entry has just failed a check
C12_Witness ==
    /\ pc = "idle"
    /\ exit = "fatal"
    /\ runs = 2
    /\ log.left.queue # ""
    /\ signed_metadata_dir[log.left.message.shasum] # Absent
    /\ signed_metadata_dir = log.signed0

\* ------------------------------------------------- C13

\* the invocation is over
Ended == pc = "idle" /\ runs > 0

\* C13: the dequeues of one invocation, and hence its fetch attempts, never
\* exceed its budget; when no fetch was fatal they are exactly the smaller of
\* the budget and the total pending depth at the start of the drain; with a
\* total pending depth of 0 the invocation dequeues nothing, fetches nothing and
\* exits normally.
C13_DequeuesWithinBudget ==
    /\ log.gets <= log.budget
    /\ log.fetches <= log.gets
    /\ log.acks <= log.gets
    /\ Ended /\ exit = "ok" => log.gets = Min(log.budget, log.total)
    /\ Ended /\ log.diffdone /\ log.total = 0 =>
           log.gets = 0 /\ log.fetches = 0 /\ exit = "ok"

\* an invocation has ended normally on its budget with messages still pending
C13_Witness ==
    /\ Ended
    /\ exit = "ok"
    /\ log.budget < log.total
    /\ log.gets = log.budget
    /\ log.fetches = log.budget

\* ------------------------------------------------- C14

\* the source file of the dequeued message is gone: no request, nothing written,
\* straight on to the task_done
C14_MissingSourceIsNotFetched ==
    [][pc = "fetch" /\ incoming_dir[message.file] = Absent =>
          /\ pc' = "ack"
          /\ signed_metadata_dir' = signed_metadata_dir
          /\ response' = response
          /\ log'.fetches = log.fetches
          /\ log'.written = log.written]_vars

\* the task_done deletes the row and the message counts against the budget
C14_SkippedIsAckedAndCounted ==
    [][pc = "ack" =>
          /\ QueueOf(queue_str, queue_daily', queue_delta').rows =
                 Tail(QueueNamed(queue_str).rows)
          /\ operations_counter' = operations_counter + 1
          /\ operations_this_run' = operations_this_run
          /\ log'.acks = log.acks + 1]_vars

\* C14: a dequeued message whose source file no longer exists in incoming at
\* drain time triggers no fetch and leaves the signed store untouched, yet the
\* message is acknowledged and counted against the invocation's budget.
C14_SkipMissingSource ==
    /\ C14_MissingSourceIsNotFetched
    /\ C14_SkippedIsAckedAndCounted

\* the only message of this drain was skipped and has used up the budget
C14_Witness ==
    /\ pc = "drain"
    /\ log.gets = 1
    /\ log.fetches = 0
    /\ log.acks = 1
    /\ operations_counter = operations_this_run
    /\ TotalQueueSize > 0
    /\ signed_metadata_dir = log.signed0

\* ------------------------------------------------- C15

\* ET.parse accepts the document and its root carries a non-empty entityID
HasIdentifier(doc) == doc.wellformed /\ doc.entityID \notin {NoAttr, ""}

\* the incoming loop of the current invocation has visited the file
Visited(entity) == AfterIncoming \/ (pc = "incoming" /\ entity \notin listing)

\* C15: an incoming file that is malformed XML, or whose root lacks the
\* identifier attribute, is skipped in every invocation, full sync or not: no
\* message is enqueued for it and its seen entry, present or absent, is left as
\* it was; the diff goes on with the remaining files and the invocation is not
\* aborted.
C15_UnparseableIncomingSkipped ==
    /\ \A entity \in Files :
          InRun /\ incoming_dir[entity] # Absent /\ ~HasIdentifier(incoming_dir[entity]) =>
              /\ log.daily_puts[entity] = 0
              /\ log.delta_puts[entity] = 0
              /\ CountFor(RowsPut(queue_daily, IF full_sync THEN 0 ELSE log.daily0), entity) = 0
              /\ CountFor(RowsPut(queue_delta, IF full_sync THEN 0 ELSE log.delta0), entity) = 0
              /\ entity \notin log.copied
              /\ seen_metadata_dir[entity] = log.seen0[entity]
    /\ \A entity \in Files :
          AfterIncoming /\ HasIdentifier(incoming_dir[entity]) =>
              seen_metadata_dir[entity] = incoming_dir[entity]
    /\ exit # "crash"
    /\ Ended => log.diffdone

\* a later invocation, not a full sync, has passed over a file whose root has no
\* entityID and whose seen copy is from an earlier, valid version
C15_Witness ==
    /\ runs = 2
    /\ pc = "plan"
    /\ ~full_sync
    /\ \E entity \in Files :
          /\ incoming_dir[entity] = Doc(TRUE, NoAttr, 1)
          /\ HasIdentifier(seen_metadata_dir[entity])
          /\ seen_metadata_dir[entity] = log.seen0[entity]

\* ------------------------------------------------- C16

\* the removed loop of the current invocation is over, or the invocation is
\* over and upstream has not acted since
AfterRemoved ==
    \/ pc \in {"plan", "drain", "fetch", "check", "ack"}
    \/ Ended /\ ~log.dirty

\* C16: when a seen file with no incoming counterpart fails to parse or has no
\* identifier, the removal step still deletes that seen file, skips only the
\* cleanup of the signed entry keyed by the digest, and the invocation goes on
\* with the remaining seen files and the drain instead of aborting.
C16_BrokenSeenFileIsRemoved ==
    /\ exit # "crash"
    /\ \A entity \in Files :
          /\ AfterRemoved
          /\ log.seen0[entity] # Absent
          /\ get_entityid_from_file(log.seen0[entity]) = None
          /\ incoming_dir[entity] = Absent
          => /\ seen_metadata_dir[entity] = Absent
             /\ signed_metadata_dir = log.signed0 \/ log.unlinked # {} \/ log.written # {}
    /\ Ended /\ ~log.dirty => log.diffdone

\* ------------------------------------------------- C17

\* an invocation that started its drain with a message pending and met no fatal
\* fetch has acknowledged at least one message
C17_RunAcksOne ==
    /\ Ended /\ exit = "ok" /\ log.total > 0 => log.acks >= 1
    /\ pc = "drain" /\ log.acks = 0 => operations_counter < operations_this_run

QueuesDrained == queue_daily.rows = <<>> /\ queue_delta.rows = <<>>

\* C17: forward progress. Every invocation that starts its drain with a
\* non-empty queue and meets no fatal fetch acknowledges at least one message;
\* hence, once incoming_metadata has stopped changing and as long as no fetch is
\* fatal, repeated invocations eventually leave both queues empty, for good.
C17_ForwardProgress ==
    /\ []C17_RunAcksOne
    /\ [](exit # "fatal") => <>[]QueuesDrained

\* an invocation has ended normally on a budget of one, with one message
\* acknowledged and others still pending
C17_Witness ==
    /\ Ended
    /\ exit = "ok"
    /\ log.budget = 1
    /\ log.acks = 1
    /\ ~QueuesDrained

\* ------------------------------------------------- C18

\* C18: starting from an empty seen_metadata, with incoming_metadata changing
\* only between invocations, every seen file in every reachable state is a byte
\* copy of content that parsed with a non-empty entityID (the incoming file the
\* current invocation copied, or what an earlier one left), so the removed loop
\* never computes the digest of a missing identifier.
C18_SeenFilesParse ==
    /\ \A entity \in Files :
          seen_metadata_dir[entity] # Absent =>
              /\ HasIdentifier(seen_metadata_dir[entity])
              /\ IF entity \in log.copied
                 THEN log.dirty \/ seen_metadata_dir[entity] = incoming_dir[entity]
                 ELSE seen_metadata_dir[entity] = log.seen0[entity]
    /\ \A entity \in Files :
          pc = "removed" /\ entity \in listing /\ incoming_dir[entity] = Absent =>
              get_entityid_from_file(seen_metadata_dir[entity]) \in EntityIds
    /\ exit # "crash"

\* the removed loop is about to compute the digest for a file upstream dropped,
\* while incoming_metadata holds a file that does not parse
C18_Witness ==
    /\ pc = "removed"
    /\ \E entity \in listing :
          /\ incoming_dir[entity] = Absent
          /\ HasIdentifier(seen_metadata_dir[entity])
    /\ \E entity \in Files :
          incoming_dir[entity] # Absent /\ ~HasIdentifier(incoming_dir[entity])

\* ------------------------------------------------- C19

\* the digest under which the signed metadata of a seen file is kept
DigestOf(doc) == shasum_entityid(get_entityid_from_file(doc))

\* C19: no orphaned signed metadata. Starting from empty directories and queues,
\* after any sequence of invocations every entry of signed_metadata keyed by a
\* digest d has a seen file whose entityID hashes to d.
C19_NoOrphanedSigned ==
    Ended =>
        \A d \in Digests :
            signed_metadata_dir[d] # Absent =>
                \E entity \in Files :
                    /\ seen_metadata_dir[entity] # Absent
                    /\ DigestOf(seen_metadata_dir[entity]) = d

\* ------------------------------------------------- C20

\* C20: completeness once drained. Starting from empty directories and queues,
\* whenever an invocation ends without a fatal fetch and with both queues empty,
\* every seen file has a signed entry keyed by the digest of its entityID.
C20_DrainedIsComplete ==
    Ended /\ exit = "ok" /\ QueuesDrained =>
        \A entity \in Files :
            seen_metadata_dir[entity] # Absent =>
                signed_metadata_dir[DigestOf(seen_metadata_dir[entity])] # Absent

====
